---------------------------- MODULE Spec2Model ----------------------------
(***************************************************************************)
(* The jrpc crate: the JSON-RPC 2.0 datatypes and their serde encodings.   *)
(*                                                                         *)
(* The crate is a value-transformation layer (encode / decode /            *)
(* constructors / is_valid).  The state machine below is one caller        *)
(* session: the transport hands a JSON document over (Receive), or the     *)
(* application builds a value (the constructors), and the session then     *)
(* applies the crate's encode and decode entry points to it.               *)
(*                                                                         *)
(* Text is a sequence of one-character strings.  A JSON document is a      *)
(* token tree whose scalar leaves keep their literal text: a string token  *)
(* holds the escaped body between its quotes, a number token its sign,     *)
(* its integer digits and whether a fraction or exponent follows.          *)
(***************************************************************************)
EXTENDS Integers, Sequences, FiniteSets, TLC

VARIABLES
    wire,   \* the JSON document on the wire, or NoDoc
    mem,    \* the in-memory side: a value, a decode outcome, or NoVal
    orig,   \* what the session started from (a document or a value)
    log,    \* the operations applied since, oldest first
    valid   \* the answer of is_valid for the value in mem, once asked

vars == <<wire, mem, orig, log, valid>>

---------------------------------------------------------------------------
(* Bounds of the model.                                                    *)

\* encode/decode steps one session applies to its input
MaxOps == 3

---------------------------------------------------------------------------
(* Text helpers.                                                           *)

NoDoc == [t |-> "none"]
NoVal == [ty |-> "none"]

Ok(v) == [ok |-> TRUE, val |-> v]
\* every decode failure is the one FormatError kind (serde_json::Error),
\* told apart by its cause
FormatError(cause, at) == [ok |-> FALSE, err |-> cause, at |-> at]

RECURSIVE Repeat(_, _)
Repeat(x, n) == IF n = 0 THEN <<>> ELSE <<x>> \o Repeat(x, n - 1)

RECURSIVE StripZeros(_)
StripZeros(ds) ==
    IF Len(ds) > 1 /\ Head(ds) = 0 THEN StripZeros(Tail(ds)) ELSE ds

\* lexicographic <= on digit rows of the same length
RECURSIVE DigitsLeq(_, _)
DigitsLeq(a, b) ==
    IF a = <<>> THEN TRUE
    ELSE IF Head(a) # Head(b) THEN Head(a) < Head(b)
    ELSE DigitsLeq(Tail(a), Tail(b))

RECURSIVE DigitsToNat(_)
DigitsToNat(ds) ==
    IF ds = <<>> THEN 0
    ELSE 10 * DigitsToNat(SubSeq(ds, 1, Len(ds) - 1)) + ds[Len(ds)]

RECURSIVE NatToDigits(_)
NatToDigits(n) ==
    IF n < 10 THEN <<n>> ELSE NatToDigits(n \div 10) \o <<n % 10>>

---------------------------------------------------------------------------
(* JSON documents.                                                         *)

JNull == [t |-> "null"]
JBool(b) == [t |-> "bool", b |-> b]
JStr(lit) == [t |-> "string", lit |-> lit]
JNum(neg, ds, frac) == [t |-> "number", neg |-> neg, int |-> ds, frac |-> frac]
JArr(items) == [t |-> "array", items |-> items]
JObj(fields) == [t |-> "object", fields |-> fields]
Field(k, v) == [k |-> k, v |-> v]

JUInt(n) == JNum(FALSE, NatToDigits(n), FALSE)
JInt(v) == IF v < 0 THEN JNum(TRUE, NatToDigits(-v), FALSE) ELSE JUInt(v)

(* A string token's body: the quote and the backslash are written escaped. *)
RECURSIVE Escape(_)
Escape(s) ==
    IF s = <<>> THEN <<>>
    ELSE (IF Head(s) \in {"\"", "\\"} THEN <<"\\", Head(s)>> ELSE <<Head(s)>>)
         \o Escape(Tail(s))

\* the text of a string token's body, or a failure on a bad escape
RECURSIVE Unescape(_)
Unescape(lit) ==
    IF lit = <<>> THEN Ok(<<>>)
    ELSE IF Head(lit) = "\\"
    THEN IF Len(lit) >= 2 /\ lit[2] \in {"\"", "\\", "/"}
         THEN LET rest == Unescape(SubSeq(lit, 3, Len(lit)))
              IN  IF rest.ok THEN Ok(<<lit[2]>> \o rest.val) ELSE rest
         ELSE FormatError("invalid escape", "string")
    ELSE LET rest == Unescape(Tail(lit))
         IN  IF rest.ok THEN Ok(<<Head(lit)>> \o rest.val) ELSE rest

---------------------------------------------------------------------------
(* Unsigned integers of a fixed width are rows of decimal digits, most     *)
(* significant first: u64 has 20 digits and the largest value U64Max.      *)

U64Max == <<1,8,4,4,6,7,4,4,0,7,3,7,0,9,5,5,1,6,1,5>>
U32Max == <<4,2,9,4,9,6,7,2,9,5>>
\* the magnitude of i64::MIN and i64::MAX + 1
I64MinMagnitude == <<0,9,2,2,3,3,7,2,0,3,6,8,5,4,7,7,5,8,0,8>>

FitsUnsigned(ds, max) ==
    /\ Len(ds) <= Len(max)
    /\ DigitsLeq(Repeat(0, Len(max) - Len(ds)) \o ds, max)

ToUnsigned(ds, max) == Repeat(0, Len(max) - Len(ds)) \o ds

U64(n) == ToUnsigned(NatToDigits(n), U64Max)

\* a JSON number may not start with a superfluous zero
WellFormedNumber(j) == Len(j.int) >= 1 /\ (Len(j.int) > 1 => Head(j.int) # 0)

(* What the JSON reader hands to a visitor for a number token: a u64 when  *)
(* the token is a non-negative integer that fits, an i64 when it is a      *)
(* negative integer that fits, and an f64 otherwise.                       *)
NumberClass(j) ==
    IF j.frac THEN "f64"
    ELSE IF ~j.neg
    THEN IF FitsUnsigned(j.int, U64Max) THEN "u64" ELSE "f64"
    ELSE IF FitsUnsigned(j.int, I64MinMagnitude) THEN "i64" ELSE "f64"

---------------------------------------------------------------------------
(* V2_0                                                                    *)

V2_0 == [ty |-> "V2_0"]
VersionText == <<"2", ".", "0">>

V2_0Encode(v) == JStr(Escape(VersionText))

V2_0Decode(j) ==
    IF j.t # "string" THEN FormatError("invalid type", "jsonrpc")
    ELSE LET s == Unescape(j.lit)
         IN  IF ~s.ok THEN s
             ELSE IF s.val = VersionText THEN Ok(V2_0)
             ELSE FormatError("unsupported protocol version", "jsonrpc")

---------------------------------------------------------------------------
(* Id                                                                      *)

IdString(s) == [ty |-> "Id", tag |-> "String", s |-> s]
IdInt(n) == [ty |-> "Id", tag |-> "Int", n |-> n]
IdNull == [ty |-> "Id", tag |-> "Null"]

IdFromString(s) == IdString(s)
IdFromU64(n) == IdInt(n)

(* #[serde(untagged)]: the variants are tried in declaration order against *)
(* the buffered value and the first that accepts it wins.                  *)
IdTryString(j) ==
    IF j.t = "string" THEN Unescape(j.lit)
    ELSE FormatError("invalid type", "id")

\* the bug of reading the number as a signed integer and casting it
IdTryInt_Signed(j) ==
    IF j.t = "number" /\ NumberClass(j) \in {"u64", "i64"}
    THEN Ok(ToUnsigned(j.int, U64Max))
    ELSE FormatError("invalid type", "id")

IdTryInt(j) ==
    IF j.t = "number" /\ NumberClass(j) = "u64"
    THEN Ok(ToUnsigned(j.int, U64Max))
    ELSE FormatError("invalid type", "id")

IdTryNull(j) == j.t = "null"

\* the bug of reading a quoted digit string as a number
IdDecode_DigitsAsInt(j) ==
    IF j.t = "string" /\ j.lit # <<>> /\ Len(j.lit) <= Len(U64Max)
       /\ \A i \in 1..Len(j.lit) : j.lit[i] \in {"0", "1", "2", "3", "4"}
    THEN Ok(IdInt(ToUnsigned(
            [i \in 1..Len(j.lit) |->
                CASE j.lit[i] = "0" -> 0 [] j.lit[i] = "1" -> 1 [] j.lit[i] = "2" -> 2
                  [] j.lit[i] = "3" -> 3 [] j.lit[i] = "4" -> 4], U64Max)))
    ELSE IF IdTryString(j).ok THEN Ok(IdString(IdTryString(j).val))
    ELSE IF IdTryInt(j).ok THEN Ok(IdInt(IdTryInt(j).val))
    ELSE IF IdTryNull(j) THEN Ok(IdNull)
    ELSE FormatError("data did not match any variant of untagged enum Id", "id")

IdDecode(j) ==
    IF j.t = "number" /\ ~WellFormedNumber(j)
    THEN FormatError("invalid number", "id")
    ELSE IF j.t = "string" /\ ~Unescape(j.lit).ok THEN Unescape(j.lit)
    ELSE IF IdTryString(j).ok THEN Ok(IdString(IdTryString(j).val))
    ELSE IF IdTryInt(j).ok THEN Ok(IdInt(IdTryInt(j).val))
    ELSE IF IdTryNull(j) THEN Ok(IdNull)
    ELSE FormatError("data did not match any variant of untagged enum Id", "id")

IdEncode(id) ==
    CASE id.tag = "String" -> JStr(Escape(id.s))
      [] id.tag = "Int" -> JNum(FALSE, StripZeros(id.n), FALSE)
      [] id.tag = "Null" -> JNull

---------------------------------------------------------------------------
(* ErrorCode                                                               *)

ParseError == [ty |-> "ErrorCode", tag |-> "ParseError"]
InvalidRequest == [ty |-> "ErrorCode", tag |-> "InvalidRequest"]
MethodNotFound == [ty |-> "ErrorCode", tag |-> "MethodNotFound"]
InvalidParams == [ty |-> "ErrorCode", tag |-> "InvalidParams"]
InternalError == [ty |-> "ErrorCode", tag |-> "InternalError"]
ServerError(v) == [ty |-> "ErrorCode", tag |-> "ServerError", v |-> v]

\* the bug of a band with its ends left out
is_valid_Exclusive(c) ==
    IF c.tag = "ServerError"
    THEN IF (-32099 < c.v) /\ (c.v < -32000) THEN TRUE ELSE FALSE
    ELSE TRUE

is_valid(c) ==
    IF c.tag = "ServerError"
    THEN IF (-32099 <= c.v) /\ (c.v <= -32000) THEN TRUE ELSE FALSE
    ELSE TRUE

\* the bug of two match arms with their variants exchanged
ErrorCodeFrom_Swapped(v) ==
    CASE v = -32700 -> ParseError
      [] v = -32600 -> InvalidRequest
      [] v = -32601 -> InvalidParams
      [] v = -32602 -> MethodNotFound
      [] v = -32603 -> InternalError
      [] OTHER -> ServerError(v)

\* the bug of a conversion that keeps only the codes of the band
ErrorCodeFrom_BandOnly(v) ==
    CASE v = -32700 -> ParseError
      [] v = -32600 -> InvalidRequest
      [] v = -32601 -> MethodNotFound
      [] v = -32602 -> InvalidParams
      [] v = -32603 -> InternalError
      [] (-32099 <= v) /\ (v <= -32000) -> ServerError(v)
      [] OTHER -> InternalError

ErrorCodeFrom(v) ==
    CASE v = -32700 -> ParseError
      [] v = -32600 -> InvalidRequest
      [] v = -32601 -> MethodNotFound
      [] v = -32602 -> InvalidParams
      [] v = -32603 -> InternalError
      [] OTHER -> ServerError(v)

(* The serde impls of ErrorCode live in the crate's serialize module: the  *)
(* code travels as a plain i64.                                            *)
ErrorCodeNumber(c) ==
    CASE c.tag = "ParseError" -> -32700
      [] c.tag = "InvalidRequest" -> -32600
      [] c.tag = "MethodNotFound" -> -32601
      [] c.tag = "InvalidParams" -> -32602
      [] c.tag = "InternalError" -> -32603
      [] c.tag = "ServerError" -> c.v

ErrorCodeEncode(c) == JInt(ErrorCodeNumber(c))

\* an i64 read from a number token (the tokens of the model that fit an
\* i64 are short enough for DigitsToNat)
I64Decode(j, at) ==
    IF j.t # "number" THEN FormatError("invalid type", at)
    ELSE IF ~WellFormedNumber(j) THEN FormatError("invalid number", at)
    ELSE IF NumberClass(j) = "f64" THEN FormatError("invalid type", at)
    ELSE IF NumberClass(j) = "u64" /\ FitsUnsigned(j.int, I64MinMagnitude)
                                   /\ ToUnsigned(j.int, U64Max) # I64MinMagnitude
    THEN Ok(DigitsToNat(j.int))
    ELSE IF NumberClass(j) = "i64" THEN Ok(-DigitsToNat(j.int))
    ELSE FormatError("invalid value", at)

ErrorCodeDecode(j) ==
    LET n == I64Decode(j, "code")
    IN  IF n.ok THEN Ok(ErrorCodeFrom(n.val)) ELSE n

---------------------------------------------------------------------------
(* The payload type T and the other field types, as type descriptors.      *)

None == [opt |-> "None"]
Some(x) == [opt |-> "Some", val |-> x]

TV2_0 == [k |-> "V2_0"]
TString == [k |-> "String"]
TId == [k |-> "Id"]
TErrorCode == [k |-> "ErrorCode"]
TVecU32 == [k |-> "VecU32"]
TOption(T) == [k |-> "Option", of |-> T]
TRequest(T) == [k |-> "Request", of |-> T]
TResult(T) == [k |-> "Result", of |-> T]
TError(T) == [k |-> "Error", of |-> T]
TErrorObject(T) == [k |-> "ErrorObject", of |-> T]

StringDecode(j, at) ==
    IF j.t = "string" THEN Unescape(j.lit)
    ELSE IF j.t = "number" /\ ~WellFormedNumber(j)
    THEN FormatError("invalid number", at)
    ELSE FormatError("invalid type", at)

StringEncode(s) == JStr(Escape(s))

RECURSIVE VecU32Items(_)
VecU32Items(items) ==
    IF items = <<>> THEN Ok(<<>>)
    ELSE LET j == Head(items)
         IN  IF j.t = "number" /\ WellFormedNumber(j) /\ ~j.neg /\ ~j.frac
                /\ FitsUnsigned(j.int, U32Max)
             THEN LET rest == VecU32Items(Tail(items))
                  IN  IF rest.ok
                      THEN Ok(<<ToUnsigned(j.int, U32Max)>> \o rest.val)
                      ELSE rest
             ELSE FormatError("invalid type", "payload")

VecU32Decode(j, at) ==
    IF j.t = "array" THEN VecU32Items(j.items)
    ELSE IF j.t = "number" /\ ~WellFormedNumber(j)
    THEN FormatError("invalid number", at)
    ELSE FormatError("invalid type", at)

VecU32Encode(xs) ==
    JArr([i \in 1..Len(xs) |-> JNum(FALSE, StripZeros(xs[i]), FALSE)])

U32(n) == ToUnsigned(NatToDigits(n), U32Max)

---------------------------------------------------------------------------
(* The message aggregates: each is its fields in declaration order.        *)

StructField(name, type) == [name |-> name, type |-> type]

RequestFields(T) ==
    << StructField("jsonrpc", TV2_0),
       StructField("method", TString),
       StructField("params", TOption(T)),
       StructField("id", TId) >>

\* the bug of a Result declared without its version field
ResultFields_NoVersion(T) ==
    << StructField("result", T),
       StructField("id", TId) >>

ResultFields(T) ==
    << StructField("jsonrpc", TV2_0),
       StructField("result", T),
       StructField("id", TId) >>

ErrorObjectFields(T) ==
    << StructField("code", TErrorCode),
       StructField("message", TString),
       StructField("data", T) >>

\* lib.rs declares Error<T> with its derive line commented out; its wire
\* shape is the one of the crate's description
ErrorFields(T) ==
    << StructField("jsonrpc", TV2_0),
       StructField("error", TErrorObject(T)),
       StructField("id", TId) >>

FieldsOf(ty) ==
    CASE ty.k = "Request" -> RequestFields(ty.of)
      [] ty.k = "Result" -> ResultFields(ty.of)
      [] ty.k = "ErrorObject" -> ErrorObjectFields(ty.of)
      [] ty.k = "Error" -> ErrorFields(ty.of)

IsStruct(ty) == ty.k \in {"Request", "Result", "ErrorObject", "Error"}

FieldNames(fs) == {fs[i].name : i \in 1..Len(fs)}
FieldIndex(fs, name) == CHOOSE i \in 1..Len(fs) : fs[i].name = name

NoSlots == [n \in {} |-> None]

RECURSIVE Decode(_, _, _)
RECURSIVE Encode(_, _)

\* the bug of defaulting every field the input does not carry
MissingField_Default(ty, name) ==
    CASE ty.k = "Option" -> Ok(None)
      [] ty.k = "String" -> Ok(<<>>)
      [] ty.k = "Id" -> Ok(IdNull)
      [] ty.k = "V2_0" -> Ok(V2_0)
      [] OTHER -> FormatError("missing field", name)

(* A field the input does not carry: an Option field is None, any other    *)
(* field is the failure "missing field `name`".                            *)
MissingField(ty, name) ==
    IF ty.k = "Option" THEN Ok(None) ELSE FormatError("missing field", name)

\* after the input's fields are read: the first field of the declaration
\* that is missing and has no default fails the decode
RECURSIVE FillMissing(_, _, _)
FillMissing(fs, i, slots) ==
    IF i > Len(fs) THEN Ok(slots)
    ELSE IF fs[i].name \in DOMAIN slots THEN FillMissing(fs, i + 1, slots)
    ELSE LET d == MissingField(fs[i].type, fs[i].name)
         IN  IF d.ok THEN FillMissing(fs, i + 1, slots @@ (fs[i].name :> d.val))
             ELSE d

(* derive(Deserialize), visit_map: the input's fields are read in input    *)
(* order; an unknown key is skipped, a key seen twice fails, a value that  *)
(* does not decode as the field's type fails.                              *)
RECURSIVE VisitMap(_, _, _)
VisitMap(fs, kvs, slots) ==
    IF kvs = <<>> THEN FillMissing(fs, 1, slots)
    ELSE LET kv == Head(kvs)
         IN  IF kv.k \notin FieldNames(fs) THEN VisitMap(fs, Tail(kvs), slots)
             ELSE IF kv.k \in DOMAIN slots
             THEN FormatError("duplicate field", kv.k)
             ELSE LET r == Decode(fs[FieldIndex(fs, kv.k)].type, kv.v, kv.k)
                  IN  IF r.ok
                      THEN VisitMap(fs, Tail(kvs), slots @@ (kv.k :> r.val))
                      ELSE r

(* derive(Deserialize), visit_seq: an array is read by position.           *)
RECURSIVE VisitSeq(_, _, _, _)
VisitSeq(fs, items, i, slots) ==
    IF i > Len(fs)
    THEN IF Len(items) > Len(fs)
         THEN FormatError("trailing characters", "struct")
         ELSE Ok(slots)
    ELSE IF i > Len(items) THEN FormatError("invalid length", "struct")
    ELSE LET r == Decode(fs[i].type, items[i], fs[i].name)
         IN  IF r.ok THEN VisitSeq(fs, items, i + 1, slots @@ (fs[i].name :> r.val))
             ELSE r

DeriveDeserialize(fs, j, at) ==
    CASE j.t = "object" -> VisitMap(fs, j.fields, NoSlots)
      [] j.t = "array" -> VisitSeq(fs, j.items, 1, NoSlots)
      [] OTHER -> FormatError("invalid type", at)

(* derive(Serialize): every field of the declaration, in its order.        *)
DeriveSerialize(fs, v) ==
    JObj([i \in 1..Len(fs) |-> Field(fs[i].name, Encode(fs[i].type, v[fs[i].name]))])

Decode(ty, j, at) ==
    CASE ty.k = "V2_0" -> V2_0Decode(j)
      [] ty.k = "String" -> StringDecode(j, at)
      [] ty.k = "Id" -> IdDecode(j)
      [] ty.k = "ErrorCode" -> ErrorCodeDecode(j)
      [] ty.k = "VecU32" -> VecU32Decode(j, at)
      [] ty.k = "Option" ->
            IF j.t = "null" THEN Ok(None)
            ELSE LET r == Decode(ty.of, j, at)
                 IN  IF r.ok THEN Ok(Some(r.val)) ELSE r
      [] OTHER -> DeriveDeserialize(FieldsOf(ty), j, at)

Encode(ty, v) ==
    CASE ty.k = "V2_0" -> V2_0Encode(v)
      [] ty.k = "String" -> StringEncode(v)
      [] ty.k = "Id" -> IdEncode(v)
      [] ty.k = "ErrorCode" -> ErrorCodeEncode(v)
      [] ty.k = "VecU32" -> VecU32Encode(v)
      [] ty.k = "Option" ->
            IF v = None THEN JNull ELSE Encode(ty.of, v.val)
      [] OTHER -> DeriveSerialize(FieldsOf(ty), v)

(* The constructors.                                                       *)
RequestNew(id, method) ==
    [jsonrpc |-> V2_0, method |-> method, params |-> None, id |-> id]

RequestWithParams(id, method, params) ==
    [jsonrpc |-> V2_0, method |-> method, params |-> Some(params), id |-> id]

ResultValue(result, id) == [jsonrpc |-> V2_0, result |-> result, id |-> id]

ErrorObjectValue(code, message, data) ==
    [code |-> code, message |-> message, data |-> data]

ErrorValue(error, id) == [jsonrpc |-> V2_0, error |-> error, id |-> id]

---------------------------------------------------------------------------
(* The inputs of the model.                                                *)

Text_m == <<"m">>
Text_CreateFoo == <<"C", "r", "e", "a", "t", "e", "F", "o", "o">>
Text_1 == <<"1">>
Text_foo == <<"f", "o", "o">>
Text_quote == <<"a", "\"", "\\">>

\* bodies of string tokens, as the transport may deliver them
StringBodies ==
    { <<>>, Text_1, Text_foo, VersionText,
      <<"2", ".", "1">>, <<"2">>, <<"2", ".", "0", " ">>,
      <<"a", "\\", "\"", "\\", "\\">>,    \* a\"\\ : the escaped Text_quote
      <<"\\", "/">>,                      \* an escape the encoder never writes
      <<"\\", "x">> }                     \* not an escape

U64Plus1 == <<1,8,4,4,6,7,4,4,0,7,3,7,0,9,5,5,1,6,1,6>>

\* number tokens: sign, integer digits, fraction-or-exponent.  A negative
\* token of the model has a non-zero magnitude.
NumberTokens ==
    { JUInt(0), JUInt(1), JUInt(4), JUInt(10),
      JNum(FALSE, StripZeros(U64Max), FALSE),
      JNum(FALSE, U64Plus1, FALSE),
      JNum(FALSE, U64Max \o <<0>>, FALSE),
      JInt(-1), JInt(-4),
      JNum(TRUE, U64Plus1, FALSE),
      JNum(FALSE, <<1>>, TRUE), JNum(TRUE, <<1>>, TRUE), JNum(FALSE, <<0>>, TRUE),
      JNum(FALSE, <<0, 1>>, FALSE) }

Array123 == JArr(<<JUInt(1), JUInt(2), JUInt(3)>>)

ScalarDocs ==
    {JStr(b) : b \in StringBodies} \cup NumberTokens
    \cup {JNull, JBool(TRUE), JBool(FALSE), JArr(<<>>), Array123, JObj(<<>>),
          JObj(<<Field("Int", JUInt(1))>>)}

\* the i64 values of the model: the fixed codes, the band's ends and
\* their neighbours, and values far from the band
CodeInputs ==
    { -32700, -32600, -32601, -32602, -32603,
      -32099, -32050, -32000, -32100, -31999,
      -1, 0, 1, -40000, -32699, -32604 }

FixedCodes == {-32700, -32600, -32601, -32602, -32603}

CodeDocs ==
    {JInt(v) : v \in CodeInputs}
    \cup {JNum(FALSE, StripZeros(I64MinMagnitude), FALSE)}

Absent == [t |-> "absent"]

Reverse(sq) == [i \in 1..Len(sq) |-> sq[Len(sq) + 1 - i]]

MakeObj(keys, vals) ==
    JObj(SelectSeq([i \in 1..Len(keys) |-> Field(keys[i], vals[i])],
                   LAMBDA f : f.v # Absent))

VersionOpts ==
    {Absent, JUInt(2)}
    \cup {JStr(b) : b \in {VersionText, <<"2", ".", "1">>, <<"2">>,
                           <<"2", ".", "0", " ">>}}
MethodOpts == {Absent, JStr(Text_m), JUInt(5), JNull}
ParamsOpts == {Absent, JNull, Array123, JStr(Text_1)}
IdOpts ==
    {Absent, JUInt(4), JStr(Text_1), JNull, JInt(-1), JNum(FALSE, <<1>>, TRUE),
     JBool(TRUE)}

RequestKeys == <<"jsonrpc", "method", "params", "id">>
ResultKeys == <<"jsonrpc", "result", "id">>
ErrorObjectKeys == <<"code", "message", "data">>
ErrorKeys == <<"jsonrpc", "error", "id">>

GoodRequestDoc == MakeObj(RequestKeys, <<JStr(VersionText), JStr(Text_m), Array123, JUInt(4)>>)

RequestDocs ==
    {MakeObj(RequestKeys, <<a, b, c, d>>) :
        a \in VersionOpts, b \in MethodOpts, c \in ParamsOpts, d \in IdOpts}
    \cup {MakeObj(Reverse(RequestKeys), <<d, c, b, a>>) :
        a \in VersionOpts, b \in MethodOpts, c \in ParamsOpts, d \in IdOpts}
    \cup { JObj(GoodRequestDoc.fields \o <<Field("id", JUInt(4))>>),
           JObj(<<Field("extra", JBool(TRUE))>> \o GoodRequestDoc.fields),
           JArr(<<JStr(VersionText), JStr(Text_m), Array123, JUInt(4)>>),
           JArr(<<JStr(VersionText), JStr(Text_m), JNull, JUInt(4)>>),
           JArr(<<JStr(VersionText), JStr(Text_m), Array123>>),
           JArr(<<JStr(<<"2", ".", "1">>), JStr(Text_m), Array123, JUInt(4)>>) }

ResultOpts == {Absent, JStr(Text_1), JNull, Array123}

\* the JSON-RPC 1.0 response of the crate's test
LegacyResponseDoc ==
    JObj(<<Field("result", JStr(Text_1)), Field("error", JNull),
           Field("id", JUInt(1))>>)

ResultDocs ==
    {MakeObj(ResultKeys, <<a, b, c>>) :
        a \in VersionOpts, b \in ResultOpts, c \in IdOpts}
    \cup {LegacyResponseDoc}

ErrorObjectDocs ==
    {MakeObj(ErrorObjectKeys, <<a, b, c>>) :
        a \in CodeDocs \cup {Absent, JStr(Text_1), JNum(FALSE, <<1>>, TRUE)},
        b \in {Absent, JStr(Text_foo), JUInt(5)},
        c \in {Absent, JNull, JStr(Text_1)}}

ErrorDocs ==
    {MakeObj(ErrorKeys, <<a, b, c>>) :
        a \in VersionOpts,
        b \in {Absent, JNull,
               MakeObj(ErrorObjectKeys, <<JInt(-32601), JStr(Text_foo), JStr(Text_1)>>),
               MakeObj(ErrorObjectKeys, <<JInt(-32700), JStr(Text_foo), JNull>>),
               MakeObj(ErrorObjectKeys, <<JInt(-1), JStr(Text_foo), Array123>>),
               MakeObj(ErrorObjectKeys, <<Absent, JStr(Text_foo), JStr(Text_1)>>)},
        c \in {Absent, JUInt(4), JStr(Text_1), JInt(-1)}}

WireInputs ==
    ScalarDocs \cup CodeDocs \cup RequestDocs \cup ResultDocs
    \cup ErrorObjectDocs \cup ErrorDocs

PayloadTypes == {TString, TVecU32, TOption(TVecU32)}

Vec123 == <<U32(1), U32(2), U32(3)>>

PayloadValues(T) ==
    CASE T = TString -> {Text_1, Text_quote}
      [] T = TVecU32 -> {<<>>, Vec123}
      [] T = TOption(TVecU32) -> {None, Some(Vec123)}

DecodeTypes ==
    {TId, TV2_0, TErrorCode}
    \cup {TRequest(T) : T \in PayloadTypes} \cup {TResult(T) : T \in PayloadTypes}
    \cup {TErrorObject(T) : T \in PayloadTypes} \cup {TError(T) : T \in PayloadTypes}

U64Inputs == {U64(0), U64(1), U64(4), U64(10), U64Max}
IdTexts == {<<>>, Text_1, Text_foo, Text_quote}
SessionIds == {IdFromU64(U64(4)), IdFromString(Text_1), IdNull}
Methods == {Text_m, Text_CreateFoo}

FixedErrorCodes ==
    {ParseError, InvalidRequest, MethodNotFound, InvalidParams, InternalError}

---------------------------------------------------------------------------
(* The session.                                                            *)

Idle == [from |-> "nothing"]
NotAsked == [asked |-> FALSE, ans |-> FALSE]
Held(ty, out) == [type |-> ty, out |-> out]
Last(sq) == sq[Len(sq)]

Init ==
    /\ wire = NoDoc
    /\ mem = NoVal
    /\ orig = Idle
    /\ log = <<>>
    /\ valid = NotAsked

\* the transport hands a document over
Receive(d) ==
    /\ orig = Idle
    /\ wire' = d
    /\ orig' = [from |-> "wire", doc |-> d]
    /\ UNCHANGED <<mem, log, valid>>

\* the application builds a value of type ty
Build(ty, v, by) ==
    /\ orig = Idle
    /\ mem' = Held(ty, Ok(v))
    /\ orig' = [from |-> by, type |-> ty, val |-> v]
    /\ UNCHANGED <<wire, log, valid>>

MakeIdFromU64 == \E n \in U64Inputs : Build(TId, IdFromU64(n), "Id::from")

MakeIdFromString == \E s \in IdTexts : Build(TId, IdFromString(s), "Id::from")

MakeIdNull == Build(TId, IdNull, "Id::Null")

MakeRequestNew ==
    \E T \in PayloadTypes, id \in SessionIds, m \in Methods :
        Build(TRequest(T), RequestNew(id, m), "Request::new")

MakeRequestWithParams ==
    \E T \in PayloadTypes, id \in SessionIds, m \in Methods :
        \E p \in PayloadValues(T) :
            Build(TRequest(T), RequestWithParams(id, m, p), "Request::with_params")

MakeResult ==
    \E T \in PayloadTypes, id \in SessionIds :
        \E r \in PayloadValues(T) :
            Build(TResult(T), ResultValue(r, id), "Result")

MakeErrorCodeFrom ==
    \E v \in CodeInputs :
        /\ orig = Idle
        /\ mem' = Held(TErrorCode, Ok(ErrorCodeFrom(v)))
        /\ orig' = [from |-> "ErrorCode::from", n |-> v]
        /\ UNCHANGED <<wire, log, valid>>

\* the variants are public: a ServerError is built around any i64
MakeServerError ==
    \E v \in CodeInputs : Build(TErrorCode, ServerError(v), "ErrorCode")

MakeFixedErrorCode ==
    \E c \in FixedErrorCodes : Build(TErrorCode, c, "ErrorCode")

MakeErrorObject ==
    \E T \in PayloadTypes :
        \E c \in FixedErrorCodes \cup {ServerError(v) : v \in CodeInputs},
           d \in PayloadValues(T) :
            Build(TErrorObject(T), ErrorObjectValue(c, Text_foo, d), "ErrorObject")

MakeError ==
    \E T \in PayloadTypes, id \in SessionIds :
        \E c \in {MethodNotFound, ServerError(-32000), ServerError(-1)},
           d \in PayloadValues(T) :
            Build(TError(T), ErrorValue(ErrorObjectValue(c, Text_foo, d), id), "Error")

\* serde_json::from_str::<ty>
DecodeStep ==
    \E ty \in DecodeTypes :
        /\ wire # NoDoc
        /\ Len(log) < MaxOps
        /\ IF log = <<>> THEN TRUE ELSE Last(log) = "encode"
        /\ IF mem = NoVal THEN TRUE ELSE mem.type = ty
        /\ mem' = Held(ty, Decode(ty, wire, "document"))
        /\ log' = Append(log, "decode")
        /\ valid' = NotAsked
        /\ UNCHANGED <<wire, orig>>

\* serde_json::to_string
EncodeStep ==
    /\ mem # NoVal
    /\ mem.out.ok
    /\ Len(log) < MaxOps
    /\ IF log = <<>> THEN TRUE ELSE Last(log) = "decode"
    /\ wire' = Encode(mem.type, mem.out.val)
    /\ log' = Append(log, "encode")
    /\ UNCHANGED <<mem, orig, valid>>

IsValid ==
    /\ mem # NoVal
    /\ mem.type = TErrorCode
    /\ mem.out.ok
    /\ ~valid.asked
    /\ valid' = [asked |-> TRUE, ans |-> is_valid(mem.out.val)]
    /\ UNCHANGED <<wire, mem, orig, log>>

\* the session ends
Drop ==
    /\ orig # Idle
    /\ wire' = NoDoc
    /\ mem' = NoVal
    /\ orig' = Idle
    /\ log' = <<>>
    /\ valid' = NotAsked

ReceiveAny == \E d \in WireInputs : Receive(d)

Next ==
    \/ ReceiveAny
    \/ MakeIdFromU64
    \/ MakeIdFromString
    \/ MakeIdNull
    \/ MakeRequestNew
    \/ MakeRequestWithParams
    \/ MakeResult
    \/ MakeErrorCodeFrom
    \/ MakeServerError
    \/ MakeFixedErrorCode
    \/ MakeErrorObject
    \/ MakeError
    \/ DecodeStep
    \/ EncodeStep
    \/ IsValid
    \/ Drop

Spec == Init /\ [][Next]_vars

---------------------------------------------------------------------------
(* Where the session stands.                                               *)

\* mem is the outcome of decoding the document on the wire as ty
DecodedAs(ty) ==
    /\ log # <<>>
    /\ Last(log) = "decode"
    /\ mem.type = ty

\* the wire holds the encoding of the value in mem
Encoded == log # <<>> /\ Last(log) = "encode"

FromWire == orig.from = "wire"
FromApp == orig.from \notin {"nothing", "wire", "ErrorCode::from"}

\* the document received was decoded once, as ty
FirstDecode(ty) == FromWire /\ log = <<"decode">> /\ mem.type = ty

\* the document received was decoded as ty and the value encoded again
DecodeEncode(ty) == FromWire /\ log = <<"decode", "encode">> /\ mem.type = ty

\* the value built was encoded and the encoding decoded as its own type
EncodeDecode == FromApp /\ log = <<"encode", "decode">>

\* the numeric literal of an unsigned 64-bit integer
IsU64Literal(j) ==
    /\ j.t = "number"
    /\ ~j.neg /\ ~j.frac
    /\ WellFormedNumber(j)
    /\ FitsUnsigned(j.int, U64Max)

---------------------------------------------------------------------------
(* C1: Id encode and decode are inverse and tag-free.  Decoding the        *)
(* numeric literal of an unsigned integer n yields Int(n) and re-encoding  *)
(* yields the literal; decoding the quoted literal of a string s yields    *)
(* String(s) and re-encoding yields the same quoted literal; null decodes  *)
(* to Null and Null encodes to null; a quoted digit string decodes to a    *)
(* String, never to an Int; no encoding of an Id is a tagging object.      *)
C1_IdRoundTrip ==
    /\ (FromWire /\ log # <<>> /\ mem.type = TId /\ IsU64Literal(orig.doc)) =>
          /\ mem.out.ok
          /\ mem.out.val.tag = "Int"
          /\ StripZeros(mem.out.val.n) = orig.doc.int
          /\ Len(mem.out.val.n) = Len(U64Max)
          /\ Encoded => wire = orig.doc
    /\ \A s \in IdTexts :
          (FromWire /\ log # <<>> /\ mem.type = TId /\ orig.doc = JStr(Escape(s))) =>
              /\ mem.out = Ok(IdString(s))
              /\ Encoded => wire = orig.doc
    /\ (FromWire /\ log # <<>> /\ mem.type = TId /\ orig.doc = JNull) =>
          /\ mem.out = Ok(IdNull)
          /\ Encoded => wire = JNull
    /\ (FromWire /\ log # <<>> /\ mem.type = TId /\ orig.doc = JStr(Text_1)) =>
          mem.out.val.tag = "String"
    /\ (Encoded /\ mem.type = TId) =>
          /\ wire.t \in {"string", "number", "null"}
          /\ mem.out.val.tag = "Int" => IsU64Literal(wire)
    /\ (EncodeDecode /\ mem.type = TId) => mem.out = Ok(orig.val)

C1_Witness ==
    /\ DecodeEncode(TId)
    /\ orig.doc = JStr(Text_1)
    /\ mem.out = Ok(IdString(Text_1))
    /\ wire = JStr(Text_1)

(* C2: decoding as Id a value that is not a string, a non-negative integer *)
(* fitting u64, or null fails with a FormatError and yields no Id.         *)
NotAnIdShape(j) ==
    \/ j.t \in {"bool", "array", "object"}
    \/ /\ j.t = "number"
       /\ \/ j.neg
          \/ j.frac
          \/ Len(j.int) > Len(U64Max)
          \/ Len(j.int) = Len(U64Max) /\ ~DigitsLeq(j.int, U64Max)

C2_IdRejectsOtherShapes ==
    (DecodedAs(TId) /\ NotAnIdShape(wire)) =>
        /\ ~mem.out.ok
        /\ "val" \notin DOMAIN mem.out
        /\ "err" \in DOMAIN mem.out

C2_Witness ==
    /\ FirstDecode(TId)
    /\ wire = JNum(FALSE, U64Plus1, FALSE)
    /\ ~mem.out.ok

---------------------------------------------------------------------------
\* the fields of an object document that carry the key k
ValuesAt(j, k) == {j.fields[i].v : i \in {n \in 1..Len(j.fields) : j.fields[n].k = k}}
HasKey(j, k) == ValuesAt(j, k) # {}
KeysOf(j) == [i \in 1..Len(j.fields) |-> j.fields[i].k]

\* a string token whose content is exactly 2.0
IsVersionToken(v) ==
    /\ v.t = "string"
    /\ Unescape(v.lit).ok
    /\ Unescape(v.lit).val = <<"2", ".", "0">>

MessageTypes ==
    {TRequest(T) : T \in PayloadTypes} \cup {TResult(T) : T \in PayloadTypes}
    \cup {TError(T) : T \in PayloadTypes}

(* C3: the version marker encodes to exactly the string "2.0", and a       *)
(* jsonrpc field decodes only when its content is exactly "2.0": for       *)
(* Request, Result and Error messages alike any other content ("2.1",      *)
(* "2", "2.0 ") makes the whole message decode fail with a FormatError.    *)
C3_VersionExact ==
    /\ (Encoded /\ mem.type = TV2_0) => wire = JStr(<<"2", ".", "0">>)
    /\ (Encoded /\ mem.type \in MessageTypes) =>
          ValuesAt(wire, "jsonrpc") = {JStr(<<"2", ".", "0">>)}
    /\ (DecodedAs(TV2_0) /\ mem.out.ok) => IsVersionToken(wire)
    /\ (DecodedAs(TV2_0) /\ IsVersionToken(wire)) => mem.out = Ok(V2_0)
    /\ \A ty \in MessageTypes :
          (DecodedAs(ty) /\ wire.t = "object"
             /\ \E v \in ValuesAt(wire, "jsonrpc") : ~IsVersionToken(v)) =>
              /\ ~mem.out.ok
              /\ "err" \in DOMAIN mem.out
    /\ \A ty \in MessageTypes :
          (DecodedAs(ty) /\ wire.t = "object" /\ mem.out.ok) =>
              /\ HasKey(wire, "jsonrpc")
              /\ "jsonrpc" \in DOMAIN mem.out.val
              /\ mem.out.val.jsonrpc = V2_0

C3_Witness ==
    /\ FirstDecode(TResult(TString))
    /\ wire = MakeObj(ResultKeys,
                      <<JStr(<<"2", ".", "0", " ">>), JStr(Text_1), JUInt(4)>>)
    /\ mem.out = FormatError("unsupported protocol version", "jsonrpc")

(* C4: encoding a Request emits jsonrpc, method, params, id in that order, *)
(* jsonrpc always "2.0" and id untagged; a request with params carries     *)
(* the encoded payload, and a request without params (Request::new) has    *)
(* no params field at all in its encoding, not an explicit null.           *)
C4_RequestEncoding ==
    \A T \in PayloadTypes :
        (FromApp /\ log = <<"encode">> /\ mem.type = TRequest(T)) =>
            /\ wire.t = "object"
            /\ ValuesAt(wire, "jsonrpc") = {JStr(<<"2", ".", "0">>)}
            /\ ValuesAt(wire, "method") = {JStr(Escape(orig.val.method))}
            /\ ValuesAt(wire, "id") = {IdEncode(orig.val.id)}
            /\ orig.from = "Request::with_params" =>
                  /\ KeysOf(wire) = <<"jsonrpc", "method", "params", "id">>
                  /\ ValuesAt(wire, "params") = {Encode(T, orig.val.params.val)}
            /\ orig.from = "Request::new" =>
                  /\ KeysOf(wire) = <<"jsonrpc", "method", "id">>
                  /\ ~HasKey(wire, "params")

(* C5: round trip: for every constructible Request, Result and Error       *)
(* message value, decode(encode(value)) = value; over every Id variant,    *)
(* params present or absent, an optional payload type, and every           *)
(* ErrorCode including a directly built ServerError(v).                    *)
C5_MessageRoundTrip ==
    (EncodeDecode /\ IsStruct(mem.type)) => mem.out = Ok(orig.val)

(* C6: ErrorCode::from is total and never fails: the five fixed integers   *)
(* map to their variants, every other integer v maps to ServerError(v),    *)
(* and is_valid of the result is true for each of the five.                *)
C6_ErrorCodeFrom ==
    (orig.from = "ErrorCode::from") =>
        /\ mem.out.ok
        /\ mem.out.val.ty = "ErrorCode"
        /\ orig.n = -32700 => mem.out.val = ParseError
        /\ orig.n = -32600 => mem.out.val = InvalidRequest
        /\ orig.n = -32601 => mem.out.val = MethodNotFound
        /\ orig.n = -32602 => mem.out.val = InvalidParams
        /\ orig.n = -32603 => mem.out.val = InternalError
        /\ orig.n \notin {-32700, -32600, -32601, -32602, -32603} =>
              mem.out.val = [ty |-> "ErrorCode", tag |-> "ServerError", v |-> orig.n]
        /\ (orig.n \in {-32700, -32600, -32601, -32602, -32603} /\ valid.asked) =>
              valid.ans

C6_Witness ==
    /\ orig.from = "ErrorCode::from"
    /\ orig.n = -32601
    /\ mem.out.val = MethodNotFound
    /\ valid.asked
    /\ valid.ans

(* C7: is_valid is true for every fixed variant, and for ServerError(v)    *)
(* exactly when -32099 <= v <= -32000; so ErrorCode::from(v).is_valid(),   *)
(* for v not one of the five fixed integers, is true exactly in the band   *)
(* (false at -1, -40000, -32100, -31999).  It is a query only: an          *)
(* out-of-band ServerError is built and held all the same.                 *)
InBand(v) == v \in -32099..-32000

C7_IsValid ==
    /\ (valid.asked /\ mem.out.val.tag # "ServerError") => valid.ans
    /\ (valid.asked /\ mem.out.val.tag = "ServerError") =>
          (valid.ans <=> InBand(mem.out.val.v))
    /\ (valid.asked /\ orig.from = "ErrorCode::from"
          /\ orig.n \notin {-32700, -32600, -32601, -32602, -32603}) =>
          /\ valid.ans <=> InBand(orig.n)
          /\ orig.n \in {-1, -40000, -32100, -31999} => ~valid.ans
          /\ orig.n \in {-32099, -32000} => valid.ans
    /\ (valid.asked /\ orig.from = "ErrorCode" /\ log = <<>>) =>
          mem.out = Ok(orig.val)
    /\ orig = Idle => \A v \in CodeInputs : ENABLED Build(TErrorCode, ServerError(v), "ErrorCode")

C7_Witness ==
    /\ orig.from = "ErrorCode"
    /\ orig.val = ServerError(-32100)
    /\ mem.out = Ok(ServerError(-32100))
    /\ valid.asked
    /\ ~valid.ans

---------------------------------------------------------------------------
\* the plain integer an error code travels as, read off the variant's name
CodeNumberOf(c) ==
    IF c.tag = "ParseError" THEN -32700
    ELSE IF c.tag = "InvalidRequest" THEN -32600
    ELSE IF c.tag = "MethodNotFound" THEN -32601
    ELSE IF c.tag = "InvalidParams" THEN -32602
    ELSE IF c.tag = "InternalError" THEN -32603
    ELSE c.v

IsCodeLiteral(j) == \E v \in CodeInputs : j = JInt(v)

\* a ServerError built around one of the five fixed integers
IsShadowedServerError(c) ==
    c.tag = "ServerError" /\ c.v \in {-32700, -32600, -32601, -32602, -32603}

C8_Encoding ==
    /\ (Encoded /\ mem.type = TErrorCode) => wire = JInt(CodeNumberOf(mem.out.val))
    /\ (DecodedAs(TErrorCode) /\ IsCodeLiteral(wire)) =>
          /\ mem.out.ok
          /\ wire = JInt(CodeNumberOf(mem.out.val))
          /\ ~InBand(CodeNumberOf(mem.out.val)) => mem.out.val.ty = "ErrorCode"
    /\ (DecodeEncode(TErrorCode) /\ IsCodeLiteral(orig.doc)) => wire = orig.doc
    /\ (orig.from = "ErrorCode::from" /\ log = <<"encode", "decode">>) =>
          /\ wire = JInt(orig.n)
          /\ mem.out.ok
          /\ CodeNumberOf(mem.out.val) = orig.n

---------------------------------------------------------------------------
RequiredRequestKeys == <<"jsonrpc", "method", "id">>

AbsentRequired(j) ==
    {k \in {"jsonrpc", "method", "id"} : ~HasKey(j, k)}

FirstAbsentRequired(j) ==
    RequiredRequestKeys[CHOOSE i \in 1..3 :
        /\ ~HasKey(j, RequiredRequestKeys[i])
        /\ \A n \in 1..(i - 1) : HasKey(j, RequiredRequestKeys[n])]

NoDuplicateKeys(j) ==
    \A a, b \in 1..Len(j.fields) : j.fields[a].k = j.fields[b].k => a = b

\* every field the document carries is, on its own, a good field of a
\* Request<T>
PresentFieldsGood(T, j) ==
    /\ NoDuplicateKeys(j)
    /\ \A v \in ValuesAt(j, "jsonrpc") : IsVersionToken(v)
    /\ \A v \in ValuesAt(j, "method") : v.t = "string" /\ Unescape(v.lit).ok
    /\ \A v \in ValuesAt(j, "id") :
          \/ v.t = "null"
          \/ v.t = "string" /\ Unescape(v.lit).ok
          \/ IsU64Literal(v)
    /\ \A v \in ValuesAt(j, "params") : Decode(TOption(T), v, "params").ok

C9_Common(T) ==
    /\ (\E v \in ValuesAt(wire, "method") : v.t # "string") => ~mem.out.ok
    /\ (AbsentRequired(wire) = {} /\ ~HasKey(wire, "params")
          /\ PresentFieldsGood(T, wire)) =>
          /\ mem.out.ok
          /\ mem.out.val.params = None
    /\ mem.out.ok =>
          /\ AbsentRequired(wire) = {}
          /\ mem.out.val.method \in
                {Unescape(v.lit).val : v \in ValuesAt(wire, "method")}
          /\ IdEncode(mem.out.val.id) \in ValuesAt(wire, "id")
          /\ mem.out.val.params # None => HasKey(wire, "params")

(* C9 as stated: decoding a Request fails with a FormatError naming the    *)
(* missing field whenever jsonrpc, method or id is absent, and whenever    *)
(* method is present but not textual; an absent params alone never fails   *)
(* and yields no params; no missing required field is ever defaulted.      *)
C9_RequestMissingField ==
    \A T \in PayloadTypes :
        (DecodedAs(TRequest(T)) /\ wire.t = "object") =>
            /\ C9_Common(T)
            /\ AbsentRequired(wire) # {} =>
                  /\ ~mem.out.ok
                  /\ mem.out.err = "missing field"
                  /\ mem.out.at \in AbsentRequired(wire)

(* C9 amended: the decode fails whenever jsonrpc, method or id is absent;  *)
(* the FormatError names the missing field, the first one in declaration   *)
(* order, when every field the input does carry is good, and otherwise is  *)
(* the failure of the first bad field of the input.  The rest as stated.   *)
C9_RequestMissingFieldAmended ==
    \A T \in PayloadTypes :
        (DecodedAs(TRequest(T)) /\ wire.t = "object") =>
            /\ C9_Common(T)
            /\ AbsentRequired(wire) # {} =>
                  /\ ~mem.out.ok
                  /\ "err" \in DOMAIN mem.out
            /\ (AbsentRequired(wire) # {} /\ PresentFieldsGood(T, wire)) =>
                  mem.out = FormatError("missing field", FirstAbsentRequired(wire))
            /\ (AbsentRequired(wire) # {} /\ mem.out.err # "missing field") =>
                  ~PresentFieldsGood(T, wire)

C9_Witness ==
    /\ FirstDecode(TRequest(TVecU32))
    /\ wire = MakeObj(RequestKeys, <<JStr(VersionText), Absent, Array123, JUInt(4)>>)
    /\ mem.out = FormatError("missing field", "method")

---------------------------------------------------------------------------
\* the response shapes the crate declares
ResponseTypes == {TResult(TString), TError(TString)}

(* C10: the combined legacy response {"result":"1","error":null,"id":1}    *)
(* (no jsonrpc field) decodes successfully as a response, and re-encoding  *)
(* the decoded value reproduces the input exactly: the same three fields   *)
(* in the same order, the null kept, no jsonrpc field added.               *)
C10_LegacyResponseRoundTrip ==
    (FromWire /\ orig.doc = LegacyResponseDoc /\ log # <<>>
       /\ mem.type \in ResponseTypes) =>
        /\ mem.out.ok
        /\ Encoded => wire = LegacyResponseDoc

=============================================================================
